---- MODULE Spec2Model ----
(***************************************************************************)
(* PureMVC multicore (TypeScript): the View's mediator/observer registry   *)
(* and notification bus, the Model's proxy registry and the two multiton   *)
(* factories, as a state machine.                                          *)
(*                                                                         *)
(* Application code (observer handlers, onRegister/onRemove hooks, the     *)
(* main program) runs between the steps of the framework code: a call      *)
(* that hands control to a callback leaves a frame on `stack`, and the     *)
(* callback that owns the top frame may call back into the View before it  *)
(* returns.                                                                *)
(***************************************************************************)
EXTENDS Integers, Sequences, FiniteSets, TLC

VARIABLES
    viewInstanceMap,   \* View.instanceMap: multiton key -> View instance
    views,             \* the View objects ever constructed, by identity
    modelInstanceMap,  \* Model.instanceMap: multiton key -> Model instance
    models,            \* the Model objects ever constructed, by identity
    stack,             \* framework calls suspended in a callback, outermost first
    nested,            \* calls made by callbacks since the outermost call began
    last,              \* the call that has just returned (or thrown) to application code, if one has
    removed,           \* mediators whose removal has returned and that were not registered since
    direct             \* notify contexts that were ever passed to registerObserver by application code

vars == <<viewInstanceMap, views, modelInstanceMap, models, stack, nested, last, removed, direct>>

(***************************************************************************)
(* Bounds of the exploration.                                              *)
(***************************************************************************)
MaxLen == 2
MaxNested == 1
MaxInst == 2
MaxModels == 1
MaxDepth == 3

(***************************************************************************)
(* Values.                                                                 *)
(***************************************************************************)
Null == "null"
Undefined == "undefined"
Void == "void"
VIEW_MULTITON_MSG == "View instance for this multiton key already constructed!"
MODEL_MULTITON_MSG == "Model instance for this multiton key already constructed!"
TypeError == "TypeError"

Keys == {"K1", "K2"}
NoteNames == {"N1", "N2"}
NOTE6 == "N1"

\* M1 and M2 are two Mediator objects with the same name whose handlers and
\* hooks are arbitrary application code; S1 and S2 are ViewTestMediator6 objects.
Mediators == {"M1", "M2", "S1", "S2"}
Proxies == {"P1", "P2"}

getMediatorName(m) ==
    CASE m \in {"M1", "M2"} -> "X"
      [] m = "S1" -> "ViewTestMediator6/1"
      [] m = "S2" -> "ViewTestMediator6/2"
      [] m = "M3" -> "Y"
      [] m = "D1" -> "D"

MediatorNames == {getMediatorName(m) : m \in Mediators}

listNotificationInterests(m) ==
    CASE m = "M1" -> <<"N1", "N2">>
      [] m = "M2" -> <<"N2">>
      [] m \in {"S1", "S2"} -> <<NOTE6>>
      [] m = "M3" -> <<"N2", "N2">>

\* What one call of m.listNotificationInterests() may return.  The method is
\* application code: D1 is a mediator whose answer changes from call to
\* call, the answer of the others is fixed.
Interests(m) ==
    IF m = "D1" THEN {<<"N1">>, <<"N2">>} ELSE {listNotificationInterests(m)}

getProxyName(p) == "P"

ProxyNames == {getProxyName(p) : p \in Proxies}

\* What the code behind a callback does: "free" code may call any operation,
\* ViewTestMediator6 is fixed by its source, and the handler R1 sends the
\* notification it is given again, every time, before it returns.
Class(owner) ==
    IF owner \in {"S1", "S2"} THEN "ViewTestMediator6"
    ELSE IF owner = "R1" THEN "Recursive"
    ELSE "free"

\* new Observer(notifyMethod, notifyContext)
Observer(fn, ctx) == [fn |-> fn, ctx |-> ctx]

compareNotifyContext(observer, object) == observer.ctx = object

\* The observers application code registers by hand.
DirectObservers == {Observer("M1", "M1")}
Contexts == {"M1"}

(***************************************************************************)
(* Plain-object maps: a function whose domain is the set of keys.          *)
(***************************************************************************)
Put(map, k, x) == [y \in (DOMAIN map) \cup {k} |-> IF y = k THEN x ELSE map[y]]

Delete(map, k) == [y \in (DOMAIN map) \ {k} |-> map[y]]

Get(map, k) == IF k \in DOMAIN map THEN map[k] ELSE Undefined

\* An instance map's entry; instances are numbered from 1, 0 is no instance.
NoInstance == 0

Instance(map, key) == IF key \in DOMAIN map THEN map[key] ELSE NoInstance

\* The reference to an instance as a call returns it.
Ref(i) == IF i = NoInstance THEN Undefined ELSE ToString(i)

EmptyMap == <<>>

Splice(s, i) == [j \in 1..(Len(s) - 1) |-> IF j < i THEN s[j] ELSE s[j + 1]]

Count(s, x) == Cardinality({j \in 1..Len(s) : s[j] = x})

(***************************************************************************)
(* View: the code of the operations on one View object `vw`.               *)
(***************************************************************************)
NewView(key) == [multitonKey |-> key, mediatorMap |-> EmptyMap, observerMap |-> EmptyMap]

\* registerObserver skipping an Observer the sequence already holds.
registerObserverOnce(vw, notificationName, observer) ==
    IF notificationName \in DOMAIN vw.observerMap
    THEN IF Count(vw.observerMap[notificationName], observer) > 0
         THEN vw
         ELSE [vw EXCEPT !.observerMap[notificationName] = Append(@, observer)]
    ELSE [vw EXCEPT !.observerMap = Put(@, notificationName, <<observer>>)]

registerObserver(vw, notificationName, observer) ==
    IF notificationName \in DOMAIN vw.observerMap
    THEN [vw EXCEPT !.observerMap[notificationName] = Append(@, observer)]
    ELSE [vw EXCEPT !.observerMap = Put(@, notificationName, <<observer>>)]

\* let i = observers.length; while (i--) { if (match) { splice; break } }
\* The index (from 1) of the entry the scan removes, 0 when it removes none.
\* The scan taking the first match from the front.
ScanFront(observers, notifyContext, i) ==
    IF \E j \in 1..i : compareNotifyContext(observers[j], notifyContext)
    THEN CHOOSE j \in 1..i :
             /\ compareNotifyContext(observers[j], notifyContext)
             /\ \A k \in 1..(j - 1) : ~compareNotifyContext(observers[k], notifyContext)
    ELSE 0

RECURSIVE ScanBack(_, _, _)
ScanBack(observers, notifyContext, i) ==
    IF i = 0 THEN 0
    ELSE IF compareNotifyContext(observers[i], notifyContext) THEN i
    ELSE ScanBack(observers, notifyContext, i - 1)

\* removeObserver without the deletion of the emptied key.
removeObserverKeepsKey(vw, notificationName, notifyContext) ==
    IF notificationName \notin DOMAIN vw.observerMap
    THEN [threw |-> TRUE, vw |-> vw]
    ELSE LET observers == vw.observerMap[notificationName]
             i == ScanBack(observers, notifyContext, Len(observers))
             spliced == IF i = 0 THEN observers ELSE Splice(observers, i)
         IN  [threw |-> FALSE,
              vw |-> [vw EXCEPT !.observerMap = Put(@, notificationName, spliced)]]

\* Reading .length of a missing sequence throws a TypeError before anything
\* is written.
removeObserver(vw, notificationName, notifyContext) ==
    IF notificationName \notin DOMAIN vw.observerMap
    THEN [threw |-> TRUE, vw |-> vw]
    ELSE LET observers == vw.observerMap[notificationName]
             i == ScanBack(observers, notifyContext, Len(observers))
             spliced == IF i = 0 THEN observers ELSE Splice(observers, i)
         IN  [threw |-> FALSE,
              vw |-> [vw EXCEPT !.observerMap =
                         IF Len(spliced) = 0
                         THEN Delete(@, notificationName)
                         ELSE Put(@, notificationName, spliced)]]

\* const observers = observersRef.slice(0)
Slice(observersRef) == observersRef

\* The delivery loop reading the live sequence instead of its copy.
ObserverAtLive(frame, vw) ==
    IF frame.arg \in DOMAIN vw.observerMap /\ frame.i + 1 <= Len(vw.observerMap[frame.arg])
    THEN vw.observerMap[frame.arg][frame.i + 1]
    ELSE Observer(Undefined, Undefined)

\* observers[i] of the delivery loop (i counts from 0)
ObserverAt(frame, vw) == frame.observers[frame.i + 1]

\* registerMediator without its guard.
NeverRegistered(vw, name) == FALSE

\* if (this.mediatorMap[name]) return
AlreadyRegistered(vw, name) == Get(vw.mediatorMap, name) # Undefined

\* The mediators registered with a View.
Registered(vw) == {vw.mediatorMap[name] : name \in DOMAIN vw.mediatorMap}

\* The registration loop stopping after the first interest.
RegisterFirstInterest(vw, interests, observer, i) ==
    IF Len(interests) = 0 THEN vw ELSE registerObserver(vw, interests[1], observer)

\* for (let i = 0; i < len; i++) this.registerObserver(interests[i], observer)
RECURSIVE RegisterInterests(_, _, _, _)
RegisterInterests(vw, interests, observer, i) ==
    IF i > Len(interests) THEN vw
    ELSE RegisterInterests(registerObserver(vw, interests[i], observer),
                           interests, observer, i + 1)

\* registerMediator up to the call of onRegister; only called when the name
\* is free.  interests is what mediator.listNotificationInterests() returned.
registerMediator(vw, mediator, interests) ==
    RegisterInterests([vw EXCEPT !.mediatorMap = Put(@, getMediatorName(mediator), mediator)],
                      interests, Observer(mediator, mediator), 1)

\* The teardown loop stopping before the first interest.
RECURSIVE RemoveInterestsButFirst(_, _, _, _)
RemoveInterestsButFirst(vw, interests, mediator, i) ==
    IF i <= 1 THEN [threw |-> FALSE, vw |-> vw]
    ELSE LET r == removeObserver(vw, interests[i], mediator)
         IN  IF r.threw THEN r
             ELSE RemoveInterestsButFirst(r.vw, interests, mediator, i - 1)

\* let i = interests.length; while (i--) this.removeObserver(interests[i], mediator)
RECURSIVE RemoveInterests(_, _, _, _)
RemoveInterests(vw, interests, mediator, i) ==
    IF i = 0 THEN [threw |-> FALSE, vw |-> vw]
    ELSE LET r == removeObserver(vw, interests[i], mediator)
         IN  IF r.threw THEN r
             ELSE RemoveInterests(r.vw, interests, mediator, i - 1)

\* removeMediator calling onRemove while the name is still in the mediator map.
removeMediatorKeepsName(vw, mediatorName, interests) ==
    RemoveInterests(vw, interests, vw.mediatorMap[mediatorName], Len(interests))

\* removeMediator of a registered mediator up to the call of onRemove.
\* interests is what mediator.listNotificationInterests() returned to this call.
removeMediator(vw, mediatorName, interests) ==
    LET mediator == vw.mediatorMap[mediatorName]
        r == RemoveInterests(vw, interests, mediator, Len(interests))
    IN  IF r.threw THEN r
        ELSE [threw |-> FALSE,
              vw |-> [r.vw EXCEPT !.mediatorMap = Delete(@, mediatorName)]]

\* this.mediatorMap[mediatorName] || null
retrieveMediator(vw, mediatorName) ==
    IF Get(vw.mediatorMap, mediatorName) = Undefined THEN Null
    ELSE vw.mediatorMap[mediatorName]

\* this.mediatorMap[mediatorName] != null
hasMediator(vw, mediatorName) ==
    Get(vw.mediatorMap, mediatorName) \notin {Null, Undefined}

(***************************************************************************)
(* The call stack.  A frame is a framework call suspended in a callback:   *)
(* notifyObservers in the handler of observers[i], registerMediator in     *)
(* onRegister, removeMediator in onRemove.  snap, delivered, hooks,        *)
(* removedAtCall and directAtCall record the call's history.               *)
(***************************************************************************)
NoObserver == Observer(Null, Null)

Event(obj, hook) == [obj |-> obj, hook |-> hook]

Frame(kind, v, arg, mediator, pre, observers, evs) ==
    [kind |-> kind, view |-> v, arg |-> arg, mediator |-> mediator, pre |-> pre,
     observers |-> observers, len |-> Len(observers), i |-> 0,
     cur |-> NoObserver, acted |-> FALSE,
     snap |-> observers, delivered |-> <<>>, hooks |-> evs,
     registeredAtCall |-> IF v \in DOMAIN views THEN Registered(views[v]) ELSE {},
     removedAtCall |-> removed, directAtCall |-> direct]

\* What application code sees of a call that has returned or thrown.
Returned(frame, result, threw) ==
    [op |-> frame.kind, view |-> frame.view, arg |-> frame.arg, pre |-> frame.pre,
     result |-> result, threw |-> threw,
     snap |-> frame.snap, delivered |-> frame.delivered, hooks |-> frame.hooks,
     registeredAtCall |-> frame.registeredAtCall,
     removedAtCall |-> frame.removedAtCall, directAtCall |-> frame.directAtCall]

Atom(op, v, arg, pre, result, threw, evs) ==
    Returned(Frame(op, v, arg, Null, pre, <<>>, evs), result, threw)

\* No call has just returned: application code or a callback is about to run.
NoCall ==
    [op |-> "none", view |-> NoInstance, arg |-> Null, pre |-> Null, result |-> Void,
     threw |-> FALSE, snap |-> <<>>, delivered |-> <<>>, hooks |-> <<>>,
     registeredAtCall |-> {}, removedAtCall |-> {}, directAtCall |-> {}]

Depth == Len(stack)

Top == stack[Depth]

\* The object whose callback a frame is suspended in.
Owner(frame) == IF frame.kind = "notifyObservers" THEN frame.cur.fn ELSE frame.mediator

Running == IF Depth = 0 THEN "main" ELSE Owner(Top)

\* Application code that is free to call the View now.
FreeCaller == Depth = 0 \/ (Class(Running) = "free" /\ nested < MaxNested)

\* ViewTestMediator6.handleNotification: this.facade.removeMediator(this.getMediatorName())
ScriptedCaller(v, mediatorName) ==
    /\ Depth > 0
    /\ Top.kind = "notifyObservers"
    /\ Class(Running) = "ViewTestMediator6"
    /\ ~Top.acted
    /\ v = Top.view
    /\ mediatorName = getMediatorName(Running)

\* The handler R1: view.notifyObservers(notification), as deep as the
\* exploration goes.
RecursiveCaller(v, notificationName) ==
    /\ Depth > 0
    /\ Depth < MaxDepth
    /\ Top.kind = "notifyObservers"
    /\ Class(Running) = "Recursive"
    /\ ~Top.acted
    /\ v = Top.view
    /\ notificationName = Top.arg

\* The stack once the running callback has made its call.
Entered ==
    IF Depth > 0 /\ Top.kind = "notifyObservers" /\ Class(Running) # "free"
    THEN [stack EXCEPT ![Depth].acted = TRUE]
    ELSE stack

Charge == IF Depth = 0 \/ Class(Running) # "free" THEN nested ELSE nested + 1

NestedAfter(newStack, n) == IF Len(newStack) = 0 THEN 0 ELSE n

\* Hooks invoked inside a call are invoked inside every call around it.
Log(cs, evs) == [j \in 1..Len(cs) |-> [cs[j] EXCEPT !.hooks = @ \o evs]]

\* An exception leaves every framework frame it reaches (none has a try);
\* it stops at application code that catches it: free code may, the
\* ViewTestMediator6 callbacks do not, the main program does.
Catchers(cs) ==
    {k \in 0..Len(cs) : Len(cs) = k \/ Class(Owner(cs[Len(cs) - k])) = "free"}

Thrown(cs, k, rec) ==
    /\ stack' = SubSeq(cs, 1, Len(cs) - k)
    /\ last' = IF k = 0 THEN rec ELSE Returned(cs[Len(cs) - k + 1], TypeError, TRUE)
    /\ nested' = NestedAfter(SubSeq(cs, 1, Len(cs) - k), Charge)

(***************************************************************************)
(* View: the calls.                                                        *)
(***************************************************************************)
Room(vw, notificationName) ==
    IF notificationName \in DOMAIN vw.observerMap
    THEN MaxLen - Len(vw.observerMap[notificationName])
    ELSE MaxLen

\* registerObserver writing to an observer map that every View shares.
CallRegisterObserverShared(v, notificationName, observer) ==
    /\ FreeCaller
    /\ Room(views[v], notificationName) > 0
    /\ views' = [w \in DOMAIN views |-> registerObserver(views[w], notificationName, observer)]
    /\ direct' = direct \cup {observer.ctx}
    /\ stack' = stack
    /\ nested' = NestedAfter(stack, Charge)
    /\ last' = Atom("registerObserver", v, notificationName, Null, Void, FALSE, <<>>)
    /\ UNCHANGED <<viewInstanceMap, modelInstanceMap, models, removed>>

CallRegisterObserver(v, notificationName, observer) ==
    /\ FreeCaller
    /\ Room(views[v], notificationName) > 0
    /\ views' = [views EXCEPT ![v] = registerObserver(@, notificationName, observer)]
    /\ direct' = direct \cup {observer.ctx}
    /\ stack' = stack
    /\ nested' = NestedAfter(stack, Charge)
    /\ last' = Atom("registerObserver", v, notificationName, Null, Void, FALSE, <<>>)
    /\ UNCHANGED <<viewInstanceMap, modelInstanceMap, models, removed>>

CallRemoveObserver(v, notificationName, notifyContext) ==
    /\ FreeCaller
    /\ LET r == removeObserver(views[v], notificationName, notifyContext)
           rec == Atom("removeObserver", v, notificationName, Null,
                       IF r.threw THEN TypeError ELSE Void, r.threw, <<>>)
       IN  /\ views' = [views EXCEPT ![v] = r.vw]
           /\ IF r.threw
              THEN \E k \in Catchers(stack) : Thrown(stack, k, rec)
              ELSE /\ stack' = stack
                   /\ nested' = NestedAfter(stack, Charge)
                   /\ last' = rec
    /\ UNCHANGED <<viewInstanceMap, modelInstanceMap, models, removed, direct>>

\* Hand the notification to observers[i]: the frame while that handler runs.
Deliver(frame, vw) ==
    LET observer == ObserverAt(frame, vw)
    IN  [frame EXCEPT !.cur = observer, !.acted = FALSE,
                      !.delivered = Append(@, observer)]

\* notifyObservers creating the sequence of a name that has none.
CallNotifyObserversCreates(v, notificationName) ==
    /\ FreeCaller
    /\ IF notificationName \in DOMAIN views[v].observerMap
       THEN LET observers == Slice(views[v].observerMap[notificationName])
                frame == Frame("notifyObservers", v, notificationName, Null, Null,
                               observers, <<>>)
            IN  /\ stack' = Append(stack, Deliver(frame, views[v]))
                /\ nested' = Charge
                /\ last' = NoCall
                /\ views' = views
       ELSE /\ views' = [views EXCEPT ![v].observerMap = Put(@, notificationName, <<>>)]
            /\ stack' = stack
            /\ nested' = NestedAfter(stack, Charge)
            /\ last' = Atom("notifyObservers", v, notificationName, Null, Void, FALSE, <<>>)
    /\ UNCHANGED <<viewInstanceMap, modelInstanceMap, models, removed, direct>>

CallNotifyObservers(v, notificationName) ==
    /\ FreeCaller \/ RecursiveCaller(v, notificationName)
    /\ IF notificationName \in DOMAIN views[v].observerMap
       THEN LET observers == Slice(views[v].observerMap[notificationName])
                frame == Frame("notifyObservers", v, notificationName, Null, Null,
                               observers, <<>>)
            IN  IF 0 < frame.len
                THEN /\ stack' = Append(Entered, Deliver(frame, views[v]))
                     /\ nested' = Charge
                     /\ last' = NoCall
                ELSE /\ stack' = Entered
                     /\ nested' = NestedAfter(stack, Charge)
                     /\ last' = Returned(frame, Void, FALSE)
       ELSE /\ stack' = Entered
            /\ nested' = NestedAfter(stack, Charge)
            /\ last' = Atom("notifyObservers", v, notificationName, Null, Void, FALSE, <<>>)
    /\ UNCHANGED <<viewInstanceMap, views, modelInstanceMap, models, removed, direct>>

\* The loop of the outermost delivery going on while a call made by its
\* handler is still running.
ObserverReturnOuter ==
    /\ Depth > 0
    /\ stack[1].kind = "notifyObservers"
    /\ LET frame == [stack[1] EXCEPT !.i = @ + 1]
       IN  IF frame.i < frame.len
           THEN /\ stack' = [stack EXCEPT ![1] = Deliver(frame, views[frame.view])]
                /\ nested' = nested
                /\ last' = NoCall
           ELSE /\ stack' = <<>>
                /\ nested' = 0
                /\ last' = Returned(frame, Void, FALSE)
    /\ UNCHANGED <<viewInstanceMap, views, modelInstanceMap, models, removed, direct>>

\* The delivery loop bounded by the length of the live sequence and reading it.
ObserverReturnLiveLength ==
    /\ Depth > 0
    /\ Top.kind = "notifyObservers"
    /\ Class(Running) # "free" => Top.acted
    /\ LET frame == [Top EXCEPT !.i = @ + 1]
           live == IF frame.arg \in DOMAIN views[frame.view].observerMap
                   THEN views[frame.view].observerMap[frame.arg]
                   ELSE <<>>
       IN  IF frame.i < Len(live)
           THEN /\ stack' = [stack EXCEPT ![Depth] =
                                [frame EXCEPT !.cur = live[frame.i + 1], !.acted = FALSE,
                                              !.delivered = Append(@, live[frame.i + 1])]]
                /\ nested' = nested
                /\ last' = NoCall
           ELSE /\ stack' = SubSeq(stack, 1, Depth - 1)
                /\ nested' = NestedAfter(SubSeq(stack, 1, Depth - 1), nested)
                /\ last' = Returned(frame, Void, FALSE)
    /\ UNCHANGED <<viewInstanceMap, views, modelInstanceMap, models, removed, direct>>

\* The running handler returns: i++, then the next handler or the end of the loop.
ObserverReturn ==
    /\ Depth > 0
    /\ Top.kind = "notifyObservers"
    /\ Class(Running) # "free" => Top.acted
    /\ LET frame == [Top EXCEPT !.i = @ + 1]
       IN  IF frame.i < frame.len
           THEN /\ stack' = [stack EXCEPT ![Depth] = Deliver(frame, views[frame.view])]
                /\ nested' = nested
                /\ last' = NoCall
           ELSE /\ stack' = SubSeq(stack, 1, Depth - 1)
                /\ nested' = NestedAfter(SubSeq(stack, 1, Depth - 1), nested)
                /\ last' = Returned(frame, Void, FALSE)
    /\ UNCHANGED <<viewInstanceMap, views, modelInstanceMap, models, removed, direct>>

HasRoom(vw, interests) ==
    \A n \in NoteNames : Count(interests, n) <= Room(vw, n)

CallRegisterMediator(v, mediator) ==
    /\ FreeCaller
    /\ LET name == getMediatorName(mediator)
           pre == Get(views[v].mediatorMap, name)
           evs == <<Event(mediator, "initializeNotifier"),
                    Event(mediator, "listNotificationInterests"),
                    Event(mediator, "onRegister")>>
       IN  IF AlreadyRegistered(views[v], name)
           THEN /\ views' = views
                /\ stack' = stack
                /\ nested' = NestedAfter(stack, Charge)
                /\ last' = Atom("registerMediator", v, mediator, pre, Void, FALSE, <<>>)
                /\ removed' = removed
           ELSE /\ \E interests \in Interests(mediator) :
                      /\ HasRoom(views[v], interests)
                      /\ views' = [views EXCEPT ![v] = registerMediator(@, mediator, interests)]
                /\ stack' = Append(Log(stack, evs),
                                   Frame("registerMediator", v, mediator, mediator, pre,
                                         <<>>, evs))
                /\ nested' = Charge
                /\ last' = NoCall
                /\ removed' = removed \ {mediator}
    /\ UNCHANGED <<viewInstanceMap, modelInstanceMap, models, direct>>

OnRegisterReturn ==
    /\ Depth > 0
    /\ Top.kind = "registerMediator"
    /\ stack' = SubSeq(stack, 1, Depth - 1)
    /\ nested' = NestedAfter(SubSeq(stack, 1, Depth - 1), nested)
    /\ last' = Returned(Top, Void, FALSE)
    /\ UNCHANGED <<viewInstanceMap, views, modelInstanceMap, models, removed, direct>>

CallRemoveMediator(v, mediatorName) ==
    /\ FreeCaller \/ ScriptedCaller(v, mediatorName)
    /\ LET pre == Get(views[v].mediatorMap, mediatorName)
       IN  IF pre = Undefined
           THEN /\ views' = views
                /\ stack' = Entered
                /\ nested' = NestedAfter(Entered, Charge)
                /\ last' = Atom("removeMediator", v, mediatorName, pre, Null, FALSE, <<>>)
           ELSE \E interests \in Interests(pre) :
                LET r == removeMediator(views[v], mediatorName, interests)
                    listed == <<Event(pre, "listNotificationInterests")>>
                    evs == listed \o <<Event(pre, "onRemove")>>
                IN  /\ views' = [views EXCEPT ![v] = r.vw]
                    /\ IF r.threw
                       THEN \E k \in Catchers(Entered) :
                               Thrown(Log(Entered, listed), k,
                                      Atom("removeMediator", v, mediatorName, pre,
                                           TypeError, TRUE, listed))
                       ELSE /\ stack' = Append(Log(Entered, evs),
                                               Frame("removeMediator", v, mediatorName,
                                                     pre, pre, <<>>, evs))
                            /\ nested' = Charge
                            /\ last' = NoCall
    /\ UNCHANGED <<viewInstanceMap, modelInstanceMap, models, removed, direct>>

OnRemoveReturn ==
    /\ Depth > 0
    /\ Top.kind = "removeMediator"
    /\ stack' = SubSeq(stack, 1, Depth - 1)
    /\ nested' = NestedAfter(SubSeq(stack, 1, Depth - 1), nested)
    /\ last' = Returned(Top, Top.mediator, FALSE)
    /\ removed' = IF Get(views[Top.view].mediatorMap, Top.arg) = Top.mediator
                  THEN removed
                  ELSE removed \cup {Top.mediator}
    /\ UNCHANGED <<viewInstanceMap, views, modelInstanceMap, models, direct>>

(***************************************************************************)
(* The View of one core under arbitrary application code.                  *)
(***************************************************************************)
Init ==
    /\ viewInstanceMap = Put(EmptyMap, "K1", 1)
    /\ views = <<NewView("K1")>>
    /\ modelInstanceMap = EmptyMap
    /\ models = <<>>
    /\ stack = <<>>
    /\ nested = 0
    /\ removed = {}
    /\ direct = {}
    /\ last = NoCall

Next ==
    \/ \E v \in DOMAIN views, n \in NoteNames, o \in DirectObservers :
          CallRegisterObserver(v, n, o)
    \/ \E v \in DOMAIN views, n \in NoteNames, c \in Contexts :
          CallRemoveObserver(v, n, c)
    \/ \E v \in DOMAIN views, n \in NoteNames : CallNotifyObservers(v, n)
    \/ ObserverReturn
    \/ \E v \in DOMAIN views, m \in Mediators : CallRegisterMediator(v, m)
    \/ OnRegisterReturn
    \/ \E v \in DOMAIN views, name \in MediatorNames : CallRemoveMediator(v, name)
    \/ OnRemoveReturn

Spec == Init /\ [][Next]_vars

TypeOK ==
    /\ nested \in 0..MaxNested
    /\ Depth = 0 => nested = 0

(***************************************************************************)
(* The multiton factories and the Model.                                   *)
(***************************************************************************)
\* The View constructor without its check.
ViewNeverConstructed(map, key) == FALSE

\* if (View.instanceMap[key]) throw Error(MULTITON_MSG)
ViewConstructed(map, key) == Instance(map, key) # NoInstance

\* getInstance constructing on every call.
ViewNeverCached(map, key) == FALSE

\* if (!View.instanceMap[key]) View.instanceMap[key] = new View(key)
ViewCached(map, key) == Instance(map, key) # NoInstance

\* if (Model.instanceMap[key]) throw Error(MULTITON_MSG)
ModelConstructed(map, key) == Instance(map, key) # NoInstance

\* if (!Model.instanceMap[key]) Model.instanceMap[key] = new Model(key)
ModelCached(map, key) == Instance(map, key) # NoInstance

NewModel(key) == [multitonKey |-> key, proxyMap |-> EmptyMap]

\* registerProxy guarded the way registerMediator is.
registerProxyKeepsFirst(md, proxy) ==
    IF getProxyName(proxy) \in DOMAIN md.proxyMap THEN md
    ELSE [md EXCEPT !.proxyMap = Put(@, getProxyName(proxy), proxy)]

\* this.proxyMap[proxy.getProxyName()] = proxy
registerProxy(md, proxy) == [md EXCEPT !.proxyMap = Put(@, getProxyName(proxy), proxy)]

\* const proxy = this.proxyMap[proxyName]; if (proxy) delete ...; return proxy
removeProxy(md, proxyName) ==
    [result |-> Get(md.proxyMap, proxyName),
     md |-> IF Get(md.proxyMap, proxyName) # Undefined
            THEN [md EXCEPT !.proxyMap = Delete(@, proxyName)]
            ELSE md]

\* this.proxyMap[proxyName] || null
retrieveProxy(md, proxyName) ==
    IF Get(md.proxyMap, proxyName) = Undefined THEN Null ELSE md.proxyMap[proxyName]

\* this.proxyMap[proxyName] != null
hasProxy(md, proxyName) == Get(md.proxyMap, proxyName) \notin {Null, Undefined}

\* new View(key), called by application code
CallNewView(key) ==
    /\ Depth = 0
    /\ IF ViewConstructed(viewInstanceMap, key)
       THEN /\ UNCHANGED <<viewInstanceMap, views>>
            /\ last' = Atom("new View", NoInstance, key, Ref(viewInstanceMap[key]),
                            VIEW_MULTITON_MSG, TRUE, <<>>)
       ELSE /\ Len(views) < MaxInst
            /\ views' = Append(views, NewView(key))
            /\ viewInstanceMap' = Put(viewInstanceMap, key, Len(views) + 1)
            /\ last' = Atom("new View", Len(views) + 1, key, Undefined,
                            Ref(Len(views) + 1), FALSE, <<>>)
    /\ UNCHANGED <<modelInstanceMap, models, stack, nested, removed, direct>>

\* View.getInstance(key)
CallViewGetInstance(key) ==
    /\ Depth = 0
    /\ IF ViewCached(viewInstanceMap, key)
       THEN /\ UNCHANGED <<viewInstanceMap, views>>
            /\ last' = Atom("View.getInstance", viewInstanceMap[key], key,
                            Ref(viewInstanceMap[key]), Ref(viewInstanceMap[key]), FALSE, <<>>)
       ELSE IF ViewConstructed(viewInstanceMap, key)
       THEN /\ UNCHANGED <<viewInstanceMap, views>>
            /\ last' = Atom("View.getInstance", NoInstance, key, Ref(viewInstanceMap[key]),
                            VIEW_MULTITON_MSG, TRUE, <<>>)
       ELSE /\ Len(views) < MaxInst
            /\ views' = Append(views, NewView(key))
            /\ viewInstanceMap' = Put(viewInstanceMap, key, Len(views) + 1)
            /\ last' = Atom("View.getInstance", Len(views) + 1, key, Undefined,
                            Ref(Len(views) + 1), FALSE, <<>>)
    /\ UNCHANGED <<modelInstanceMap, models, stack, nested, removed, direct>>

\* View.removeView(key)
CallRemoveView(key) ==
    /\ Depth = 0
    /\ viewInstanceMap' = Delete(viewInstanceMap, key)
    /\ last' = Atom("View.removeView", NoInstance, key,
                    Ref(Instance(viewInstanceMap, key)), Void, FALSE, <<>>)
    /\ UNCHANGED <<views, modelInstanceMap, models, stack, nested, removed, direct>>

\* new Model(key), called by application code
CallNewModel(key) ==
    /\ Depth = 0
    /\ IF Instance(modelInstanceMap, key) # NoInstance
       THEN /\ UNCHANGED <<modelInstanceMap, models>>
            /\ last' = Atom("new Model", NoInstance, key, Ref(modelInstanceMap[key]),
                            MODEL_MULTITON_MSG, TRUE, <<>>)
       ELSE /\ Len(models) < MaxModels
            /\ models' = Append(models, NewModel(key))
            /\ modelInstanceMap' = Put(modelInstanceMap, key, Len(models) + 1)
            /\ last' = Atom("new Model", Len(models) + 1, key, Undefined,
                            Ref(Len(models) + 1), FALSE, <<>>)
    /\ UNCHANGED <<viewInstanceMap, views, stack, nested, removed, direct>>

\* Model.getInstance(key)
CallModelGetInstance(key) ==
    /\ Depth = 0
    /\ IF ModelCached(modelInstanceMap, key)
       THEN /\ UNCHANGED <<modelInstanceMap, models>>
            /\ last' = Atom("Model.getInstance", modelInstanceMap[key], key,
                            Ref(modelInstanceMap[key]), Ref(modelInstanceMap[key]), FALSE, <<>>)
       ELSE IF ModelConstructed(modelInstanceMap, key)
       THEN /\ UNCHANGED <<modelInstanceMap, models>>
            /\ last' = Atom("Model.getInstance", NoInstance, key, Ref(modelInstanceMap[key]),
                            MODEL_MULTITON_MSG, TRUE, <<>>)
       ELSE /\ Len(models) < MaxModels
            /\ models' = Append(models, NewModel(key))
            /\ modelInstanceMap' = Put(modelInstanceMap, key, Len(models) + 1)
            /\ last' = Atom("Model.getInstance", Len(models) + 1, key, Undefined,
                            Ref(Len(models) + 1), FALSE, <<>>)
    /\ UNCHANGED <<viewInstanceMap, views, stack, nested, removed, direct>>

\* Model.removeModel(key)
CallRemoveModel(key) ==
    /\ Depth = 0
    /\ modelInstanceMap' = Delete(modelInstanceMap, key)
    /\ last' = Atom("Model.removeModel", NoInstance, key,
                    Ref(Instance(modelInstanceMap, key)), Void, FALSE, <<>>)
    /\ UNCHANGED <<viewInstanceMap, views, models, stack, nested, removed, direct>>

\* Proxy.onRegister and Proxy.onRemove are the no-ops of the base class.
CallRegisterProxy(d, proxy) ==
    /\ Depth = 0
    /\ models' = [models EXCEPT ![d] = registerProxy(@, proxy)]
    /\ last' = Atom("registerProxy", d, proxy, Get(models[d].proxyMap, getProxyName(proxy)),
                    Void, FALSE,
                    <<Event(proxy, "initializeNotifier"), Event(proxy, "onRegister")>>)
    /\ UNCHANGED <<viewInstanceMap, views, modelInstanceMap, stack, nested, removed, direct>>

CallRemoveProxy(d, proxyName) ==
    /\ Depth = 0
    /\ LET r == removeProxy(models[d], proxyName)
       IN  /\ models' = [models EXCEPT ![d] = r.md]
           /\ last' = Atom("removeProxy", d, proxyName, Get(models[d].proxyMap, proxyName),
                           r.result, FALSE,
                           IF r.result # Undefined
                           THEN <<Event(r.result, "onRemove")>>
                           ELSE <<>>)
    /\ UNCHANGED <<viewInstanceMap, views, modelInstanceMap, stack, nested, removed, direct>>

(***************************************************************************)
(* Several cores: the factories, the Models and the Views, driven by the   *)
(* main program (callbacks return without calling back).                   *)
(***************************************************************************)
CoreMediators == {"M1"}

\* The Model factory is explored for one key, the View factory for both.
ModelKeys == {"K1"}

InitCores ==
    /\ viewInstanceMap = EmptyMap
    /\ views = <<>>
    /\ modelInstanceMap = EmptyMap
    /\ models = <<>>
    /\ stack = <<>>
    /\ nested = 0
    /\ removed = {}
    /\ direct = {}
    /\ last = NoCall

NextCores ==
    \/ \E key \in Keys : CallNewView(key)
    \/ \E key \in Keys : CallViewGetInstance(key)
    \/ \E key \in Keys : CallRemoveView(key)
    \/ \E key \in ModelKeys : CallNewModel(key)
    \/ \E key \in ModelKeys : CallModelGetInstance(key)
    \/ \E key \in ModelKeys : CallRemoveModel(key)
    \/ \E d \in DOMAIN models, p \in Proxies : CallRegisterProxy(d, p)
    \/ \E d \in DOMAIN models, name \in ProxyNames : CallRemoveProxy(d, name)
    \/ \E v \in DOMAIN views, m \in CoreMediators : Depth = 0 /\ CallRegisterMediator(v, m)
    \/ OnRegisterReturn
    \/ \E v \in DOMAIN views : Depth = 0 /\ CallRemoveMediator(v, "X")
    \/ OnRemoveReturn

SpecCores == InitCores /\ [][NextCores]_vars

(***************************************************************************)
(* Two cores side by side, driven by the main program: the Views and the   *)
(* Models of "K1" and "K2" as getInstance made them.  Each core has its    *)
(* own objects, so that whose Observer a handler is can be told: M1, the   *)
(* handler H1 bound to the context M1 and P1 belong to the first core, M2  *)
(* and P2 to the second.  M1 and M2 have the same mediator name and share  *)
(* the notification name "N2"; P1 and P2 have the same proxy name.         *)
(***************************************************************************)
TwoCoreObservers == {Observer("H1", "M1")}

TwoCoreContexts == {"M1", "M2"}

TwoCoreMediators == {"M1", "M2"}

\* The core (by the index of its View and of its Model) an object is used with.
CoreOf(object) == IF object \in {"M1", "H1", "P1"} THEN 1 ELSE 2

InitTwoCores ==
    /\ viewInstanceMap = Put(Put(EmptyMap, "K1", 1), "K2", 2)
    /\ views = <<NewView("K1"), NewView("K2")>>
    /\ modelInstanceMap = Put(Put(EmptyMap, "K1", 1), "K2", 2)
    /\ models = <<NewModel("K1"), NewModel("K2")>>
    /\ stack = <<>>
    /\ nested = 0
    /\ removed = {}
    /\ direct = {}
    /\ last = NoCall

NextTwoCores ==
    \/ \E v \in DOMAIN views, n \in NoteNames, o \in TwoCoreObservers :
          Depth = 0 /\ CoreOf(o.fn) = v /\ CallRegisterObserver(v, n, o)
    \/ \E v \in DOMAIN views, n \in NoteNames, c \in TwoCoreContexts :
          Depth = 0 /\ CallRemoveObserver(v, n, c)
    \/ \E v \in DOMAIN views, n \in NoteNames : Depth = 0 /\ CallNotifyObservers(v, n)
    \/ ObserverReturn
    \/ \E v \in DOMAIN views, m \in TwoCoreMediators :
          Depth = 0 /\ CoreOf(m) = v /\ CallRegisterMediator(v, m)
    \/ OnRegisterReturn
    \/ \E v \in DOMAIN views : Depth = 0 /\ CallRemoveMediator(v, "X")
    \/ OnRemoveReturn
    \/ \E d \in DOMAIN models, p \in Proxies : CoreOf(p) = d /\ CallRegisterProxy(d, p)
    \/ \E d \in DOMAIN models, name \in ProxyNames : CallRemoveProxy(d, name)

SpecTwoCores == InitTwoCores /\ [][NextTwoCores]_vars

(***************************************************************************)
(* The View of one core whose observers come and go through                *)
(* registerMediator and removeMediator only: application code calls        *)
(* neither registerObserver nor removeObserver.  M3 lists one name twice,  *)
(* D1 changes its list between calls.                                      *)
(***************************************************************************)
ListedMediators == {"M1", "M2", "S1", "M3", "D1"}

\* The mediators of ListedMediators whose list is fixed.
FixedMediators == {m \in ListedMediators : Cardinality(Interests(m)) = 1}

NextMediators ==
    \/ \E v \in DOMAIN views, n \in NoteNames : CallNotifyObservers(v, n)
    \/ ObserverReturn
    \/ \E v \in DOMAIN views, m \in ListedMediators : CallRegisterMediator(v, m)
    \/ OnRegisterReturn
    \/ \E v \in DOMAIN views, m \in ListedMediators :
          CallRemoveMediator(v, getMediatorName(m))
    \/ OnRemoveReturn

SpecMediators == Init /\ [][NextMediators]_vars

(***************************************************************************)
(* Deliveries whose handlers register observers: the main program         *)
(* registers and removes Observers and sends notifications; a handler      *)
(* registers Observers and sends nothing, except the handler R1, which     *)
(* sends the notification it is handling again.  A handler that is called  *)
(* returns in the end unless the call it makes does not.                   *)
(***************************************************************************)
DeliveryObservers == {Observer("H1", "M1"), Observer("R1", "R1")}

DeliveryContexts == {"M1", "R1"}

NextDelivery ==
    \/ \E v \in DOMAIN views, n \in NoteNames, o \in DeliveryObservers :
          CallRegisterObserver(v, n, o)
    \/ \E v \in DOMAIN views, n \in NoteNames, c \in DeliveryContexts :
          Depth = 0 /\ CallRemoveObserver(v, n, c)
    \/ \E v \in DOMAIN views, n \in NoteNames :
          (Depth = 0 \/ RecursiveCaller(v, n)) /\ CallNotifyObservers(v, n)
    \/ ObserverReturn

SpecDelivery == Init /\ [][NextDelivery]_vars /\ WF_vars(ObserverReturn)

(***************************************************************************)
(* Properties of the View of one core (Spec).                              *)
(***************************************************************************)
NotifyFrames == {j \in 1..Depth : stack[j].kind = "notifyObservers"}

Interested(m, notificationName) ==
    \E j \in 1..Len(listNotificationInterests(m)) :
        listNotificationInterests(m)[j] = notificationName

Handled(delivered, m) == \E j \in 1..Len(delivered) : delivered[j].fn = m

\* C1: the handlers a notifyObservers call invokes are exactly the entries of
\* the sequence as it was when the call began, each once and in order,
\* whatever the handlers call on the View meanwhile: a call in progress has
\* invoked a prefix of its snapshot, a call that is over has invoked all of it.
C1_DeliversSnapshot ==
    /\ \A j \in NotifyFrames :
          stack[j].delivered = SubSeq(stack[j].snap, 1, stack[j].i + 1)
    /\ last.op = "notifyObservers" => last.delivered = last.snap

\* The same for the calls that no exception ended.
DeliversSnapshotUnlessThrown ==
    /\ \A j \in NotifyFrames :
          stack[j].delivered = SubSeq(stack[j].snap, 1, stack[j].i + 1)
    /\ (last.op = "notifyObservers" /\ ~last.threw) => last.delivered = last.snap

\* The call that has just returned began with the sequence of NOTE6 made of
\* the Observers of registered ViewTestMediator6 mediators, one each.
SelfRemovalScenario(rec) ==
    /\ rec.op = "notifyObservers"
    /\ rec.arg = NOTE6
    /\ Len(rec.snap) >= 1
    /\ \A j \in 1..Len(rec.snap) :
          /\ Class(rec.snap[j].fn) = "ViewTestMediator6"
          /\ rec.snap[j] = Observer(rec.snap[j].fn, rec.snap[j].fn)
          /\ rec.snap[j].fn \in rec.registeredAtCall
          /\ Count(rec.snap, rec.snap[j]) = 1

SelfRemovalDone ==
    SelfRemovalScenario(last) =>
        /\ ~last.threw
        /\ last.delivered = last.snap
        /\ \A j \in 1..Len(last.snap) :
              LET m == last.snap[j].fn
              IN  /\ Count(last.hooks, Event(m, "onRemove")) = 1
                  /\ ~hasMediator(views[last.view], getMediatorName(m))
        /\ NOTE6 \notin DOMAIN views[last.view].observerMap

SelfRemovalSecond ==
    (SelfRemovalScenario(last) /\ CallNotifyObservers(last.view, NOTE6)) =>
        /\ last'.op = "notifyObservers"
        /\ last'.delivered = <<>>
        /\ last'.hooks = <<>>
        /\ stack' = stack

\* C2: k ViewTestMediator6 mediators, all interested in NOTE6 and each
\* removing itself in its handler: one notifyObservers(NOTE6) invokes each
\* handler once and each onRemove once, leaves none of them registered and
\* no key NOTE6; a second notifyObservers(NOTE6) invokes nothing.
C2_SelfRemoval == []SelfRemovalDone /\ [][SelfRemovalSecond]_vars

C2_Witness == SelfRemovalScenario(last) /\ Len(last.snap) = 2

\* C3: the observer map never maps a notification name to an empty sequence.
C3_NoEmptySequence ==
    \A v \in DOMAIN views : \A n \in DOMAIN views[v].observerMap :
        Len(views[v].observerMap[n]) > 0

\* removeObserver has just removed the last Observer of a name.
C3_Witness ==
    /\ last.op = "removeObserver"
    /\ ~last.threw
    /\ last.arg \notin DOMAIN views[last.view].observerMap

C5_ReRegistrationNoOp ==
    [][\A v \in DOMAIN views, m \in Mediators :
          (CallRegisterMediator(v, m) /\ hasMediator(views[v], getMediatorName(m))) =>
              /\ views' = views
              /\ stack' = stack
              /\ retrieveMediator(views'[v], getMediatorName(m))
                    = retrieveMediator(views[v], getMediatorName(m))
              /\ last'.op = "registerMediator"
              /\ ~last'.threw
              /\ last'.hooks = <<>>]_vars

\* registerMediator(m2) has just returned while m1 holds the name.
C5_Witness ==
    /\ last.op = "registerMediator"
    /\ last.pre \notin {Undefined, last.arg}
    /\ retrieveMediator(views[last.view], getMediatorName(last.arg)) = last.pre

\* C10: removeMediator of a registered name returns the mediator, invokes its
\* onRemove once, and leaves the name unregistered.
C10_RemoveMediatorCompletes ==
    (last.op = "removeMediator" /\ last.pre # Undefined) =>
        /\ ~last.threw
        /\ last.result = last.pre
        /\ Count(last.hooks, Event(last.pre, "onRemove")) = 1
        /\ Count(last.hooks, Event(last.pre, "onRegister")) = 0 =>
              /\ ~hasMediator(views[last.view], last.arg)
              /\ retrieveMediator(views[last.view], last.arg) = Null

NotifyUnknown ==
    \A v \in DOMAIN views, n \in NoteNames :
        (CallNotifyObservers(v, n) /\ n \notin DOMAIN views[v].observerMap) =>
            /\ views' = views
            /\ stack' = stack
            /\ last'.op = "notifyObservers"
            /\ ~last'.threw
            /\ last'.result = Void
            /\ last'.delivered = <<>>
            /\ last'.hooks = <<>>

\* C13: notifyObservers for a name that has no sequence in the observer map
\* invokes no handler, throws nothing and leaves both maps as they were,
\* without an entry for the name.
C13_UnknownNameNoOp == [][NotifyUnknown]_vars

\* A handler has just sent a notification nobody observes, on a View that
\* holds a mediator and observers under the other name.
C13_Witness ==
    /\ last.op = "notifyObservers"
    /\ last.snap = <<>>
    /\ Depth = 1
    /\ last.arg \notin DOMAIN views[last.view].observerMap
    /\ DOMAIN views[last.view].observerMap # {}
    /\ DOMAIN views[last.view].mediatorMap # {}

\* Of every delivery in progress exactly one handler is running: the one at
\* position i (from 0) of the snapshot, after those before it.
OneHandlerRunning ==
    \A j \in NotifyFrames :
        /\ stack[j].i < stack[j].len
        /\ Len(stack[j].delivered) = stack[j].i + 1
        /\ stack[j].cur = stack[j].delivered[stack[j].i + 1]

\* A delivery moves to its next handler only when no call made by the
\* running handler is on the stack, and leaves the stack only from the top:
\* returning after its last handler, or by an exception.
DepthFirstStep ==
    /\ \A j \in NotifyFrames :
          (j <= Depth' /\ stack'[j].i # stack[j].i) => (j = Depth /\ Depth' = Depth)
    /\ Depth' < Depth =>
          \/ last'.threw
          \/ /\ Depth' = Depth - 1
             /\ last'.op = Top.kind
             /\ Top.kind = "notifyObservers" =>
                   /\ Top.i + 1 = Top.len
                   /\ Len(last'.delivered) = Top.len
    /\ last'.op = "notifyObservers" /\ ~last'.threw /\ Depth' = Depth =>
          last'.delivered = <<>>

\* C17: delivery is synchronous and depth-first: the handler at the next
\* position of a snapshot starts only after the handler before it has
\* returned, with every call it made (the deliveries it started included)
\* over, and notifyObservers returns only after its last handler.
C17_DepthFirst == []OneHandlerRunning /\ [][DepthFirstStep]_vars

\* The second handler of a delivery started by the first handler of another
\* delivery runs, the other delivery's second handler still to come.
C17_Witness ==
    /\ Depth = 2
    /\ stack[1].kind = "notifyObservers" /\ stack[2].kind = "notifyObservers"
    /\ stack[1].i = 0 /\ stack[1].len = 2
    /\ stack[2].i = 1

\* C14: a call of a View or Model operation that ends with an exception is a
\* construction for a key that is in the factory map; every other call
\* returns, removeObserver for a name without a sequence included.
C14_OnlyDuplicateConstructionThrows ==
    last.threw => last.result \in {VIEW_MULTITON_MSG, MODEL_MULTITON_MSG}

(***************************************************************************)
(* Properties of the factories and the Model (SpecCores).                  *)
(***************************************************************************)
DuplicateView(key) ==
    (CallNewView(key) /\ Instance(viewInstanceMap, key) # NoInstance) =>
        /\ last'.threw
        /\ last'.result = VIEW_MULTITON_MSG
        /\ UNCHANGED <<viewInstanceMap, views, modelInstanceMap, models>>

DuplicateModel(key) ==
    (CallNewModel(key) /\ Instance(modelInstanceMap, key) # NoInstance) =>
        /\ last'.threw
        /\ last'.result = MODEL_MULTITON_MSG
        /\ UNCHANGED <<viewInstanceMap, views, modelInstanceMap, models>>

\* C6: constructing a View or a Model for a key that is in the factory map
\* throws the duplicate-construction error and changes neither the factory
\* maps nor any instance.
C6_DuplicateConstruction ==
    [][\A key \in Keys : DuplicateView(key) /\ DuplicateModel(key)]_vars

\* new View(key) has just thrown for the key of a View that holds a mediator.
C6_Witness ==
    /\ last.op = "new View"
    /\ last.threw
    /\ DOMAIN views[viewInstanceMap[last.arg]].mediatorMap # {}

GetCached(key) ==
    (CallViewGetInstance(key) /\ key \in DOMAIN viewInstanceMap) =>
        /\ ~last'.threw
        /\ last'.result = Ref(viewInstanceMap[key])
        /\ UNCHANGED <<viewInstanceMap, views>>

GetFresh(key) ==
    (CallViewGetInstance(key) /\ key \notin DOMAIN viewInstanceMap) =>
        /\ ~last'.threw
        /\ last'.result = Ref(viewInstanceMap'[key])
        /\ viewInstanceMap'[key] \notin DOMAIN views
        /\ views'[viewInstanceMap'[key]] = NewView(key)
        /\ \A i \in DOMAIN views : views'[i] = views[i]
        /\ \A other \in Keys \ {key} :
              Instance(viewInstanceMap', other) = Instance(viewInstanceMap, other)

OnlyRemoveViewUnmaps(key) ==
    (key \in DOMAIN viewInstanceMap
        /\ Instance(viewInstanceMap', key) # viewInstanceMap[key]) =>
        /\ key \notin DOMAIN viewInstanceMap'
        /\ CallRemoveView(key)

RemovedKeepsRegistrations(key) == CallRemoveView(key) => views' = views

\* C7: getInstance(key) returns the instance the factory map holds for the
\* key, which only removeView(key) takes out of the map; for a key that is
\* not in the map it returns a new instance, distinct from every earlier one,
\* with empty maps, and removeView leaves every instance as it is.
C7_FactoryLifecycle ==
    [][\A key \in Keys :
          /\ GetCached(key)
          /\ GetFresh(key)
          /\ OnlyRemoveViewUnmaps(key)
          /\ RemovedKeepsRegistrations(key)]_vars

\* getInstance has just returned a fresh View for a key whose removed View
\* still holds a mediator.
C7_Witness ==
    /\ last.op = "View.getInstance"
    /\ last.pre = Undefined
    /\ views[last.view] = NewView(last.arg)
    /\ \E i \in DOMAIN views :
          /\ i # last.view
          /\ views[i].multitonKey = last.arg
          /\ DOMAIN views[i].mediatorMap # {}

\* C8: for a name that is not registered, retrieveMediator, removeMediator,
\* retrieveProxy and removeProxy return null, throw nothing and invoke no hook.
C8_MissingReturnsNull ==
    /\ \A v \in DOMAIN views : \A name \in MediatorNames \ DOMAIN views[v].mediatorMap :
          retrieveMediator(views[v], name) = Null
    /\ \A d \in DOMAIN models : \A name \in ProxyNames \ DOMAIN models[d].proxyMap :
          retrieveProxy(models[d], name) = Null
    /\ (last.op \in {"removeMediator", "removeProxy"} /\ last.pre = Undefined) =>
          /\ last.result = Null
          /\ ~last.threw
          /\ last.hooks = <<>>

Overwrote == last.op = "registerProxy" /\ last.pre \notin {Undefined, last.arg}

OverwriteDone ==
    /\ last.op = "registerProxy" =>
          /\ retrieveProxy(models[last.view], getProxyName(last.arg)) = last.arg
          /\ last.hooks = <<Event(last.arg, "initializeNotifier"),
                            Event(last.arg, "onRegister")>>
    /\ (last.op = "removeProxy" /\ last.pre # Undefined) =>
          /\ last.result = last.pre
          /\ last.hooks = <<Event(last.pre, "onRemove")>>
          /\ ~hasProxy(models[last.view], last.arg)

RemoveAfterOverwrite ==
    (Overwrote /\ CallRemoveProxy(last.view, getProxyName(last.arg))) =>
        /\ last'.result = last.arg
        /\ last'.hooks = <<Event(last.arg, "onRemove")>>
        /\ ~hasProxy(models'[last.view], getProxyName(last.arg))

\* C9: registerProxy(p2) under the name of a registered p1 overwrites:
\* retrieveProxy returns p2, the call invokes onRegister of p2 and no
\* onRemove; a following removeProxy returns p2, invokes onRemove of p2 only
\* and leaves the name unregistered.
C9_ProxyOverwrite == []OverwriteDone /\ [][RemoveAfterOverwrite]_vars

C9_Witness == Overwrote /\ last.pre = "P1" /\ last.arg = "P2"

(***************************************************************************)
(* Properties of two cores side by side (SpecTwoCores).                    *)
(***************************************************************************)
\* The call a step makes or ends: of a View operation, of a Model operation.
StepOp == IF Depth' > Depth THEN stack'[Depth'].kind ELSE last'.op

StepInstance == IF Depth' > Depth THEN stack'[Depth'].view ELSE last'.view

ModelOps == {"registerProxy", "removeProxy"}

\* A step of an operation of one core changes no map of the other core.
IsolatedStep ==
    IF StepOp \in ModelOps
    THEN /\ \A e \in DOMAIN models \ {StepInstance} : models'[e] = models[e]
         /\ views' = views
    ELSE /\ \A w \in DOMAIN views \ {StepInstance} : views'[w] = views[w]
         /\ models' = models

\* The handlers a delivery has invoked are handlers of its own core.
OwnDeliveries ==
    /\ \A j \in NotifyFrames : \A k \in 1..Len(stack[j].delivered) :
          CoreOf(stack[j].delivered[k].fn) = stack[j].view
    /\ last.op = "notifyObservers" =>
          \A k \in 1..Len(last.delivered) : CoreOf(last.delivered[k].fn) = last.view

\* C11: an operation on the View or the Model of one core leaves the maps of
\* the View and the Model of the other core as they were, and notifyObservers
\* on one View invokes no Observer that is registered with the other View
\* only, also when the two cores use the same mediator and notification names.
C11_CoreIsolation == []OwnDeliveries /\ [][IsolatedStep]_vars

\* A delivery of "N2" by the first View while the second View holds an
\* Observer under "N2" too, both Views hold a mediator named "X" and both
\* Models a proxy named "P".
C11_Witness ==
    /\ Depth = 1
    /\ Top.kind = "notifyObservers"
    /\ Top.view = 1
    /\ Top.arg = "N2"
    /\ "N2" \in DOMAIN views[2].observerMap
    /\ hasMediator(views[1], "X") /\ hasMediator(views[2], "X")
    /\ hasProxy(models[1], "P") /\ hasProxy(models[2], "P")

\* The Observers that can be in a sequence of the two cores.
AllObservers == TwoCoreObservers \cup {Observer(m, m) : m \in TwoCoreMediators}

\* How many times an Observer is in the sequence of a name.
Present(vw, notificationName, observer) ==
    IF notificationName \in DOMAIN vw.observerMap
    THEN Count(vw.observerMap[notificationName], observer)
    ELSE 0

\* No handler of SpecTwoCores calls the View, so the sequence a delivery
\* began with is the sequence the View holds during and right after it.
DeliveredAsPresent ==
    /\ \A j \in NotifyFrames : \A o \in AllObservers :
          Count(stack[j].delivered, o)
              = Count(SubSeq(views[stack[j].view].observerMap[stack[j].arg],
                             1, stack[j].i + 1), o)
    /\ last.op = "notifyObservers" =>
          \A o \in AllObservers :
              Count(last.delivered, o) = Present(views[last.view], last.arg, o)

RegisterAdds ==
    \A v \in DOMAIN views, n \in NoteNames, o \in TwoCoreObservers :
        CallRegisterObserver(v, n, o) =>
            /\ Present(views'[v], n, o) = Present(views[v], n, o) + 1
            /\ \A other \in NoteNames \ {n} :
                  Present(views'[v], other, o) = Present(views[v], other, o)

\* C12: observers are not deduplicated: registerObserver adds one occurrence
\* of the Observer to the sequence of the name whether or not it is there
\* already, and notifyObservers invokes an Observer's handler as many times
\* as the Observer occurs in the sequence of the notification's name.
C12_NoDeduplication == []DeliveredAsPresent /\ [][RegisterAdds]_vars

\* A notification has just been delivered twice to an Observer that is
\* twice in its sequence and once in the sequence of the other name.
C12_Witness ==
    /\ last.op = "notifyObservers"
    /\ last.arg = "N1"
    /\ last.delivered = <<Observer("H1", "M1"), Observer("H1", "M1")>>
    /\ Present(views[last.view], "N1", Observer("H1", "M1")) = 2
    /\ Present(views[last.view], "N2", Observer("H1", "M1")) = 1

RemovesHighestMatch ==
    \A v \in DOMAIN views, n \in NoteNames, c \in TwoCoreContexts :
        (CallRemoveObserver(v, n, c) /\ n \in DOMAIN views[v].observerMap) =>
            LET s == views[v].observerMap[n]
                matches == {j \in 1..Len(s) : s[j].ctx = c}
                top == CHOOSE j \in matches : \A k \in matches : k <= j
                rest == SubSeq(s, 1, top - 1) \o SubSeq(s, top + 1, Len(s))
            IN  /\ ~last'.threw
                /\ views'[v].mediatorMap = views[v].mediatorMap
                /\ \A other \in NoteNames \ {n} :
                      /\ other \in DOMAIN views'[v].observerMap
                            <=> other \in DOMAIN views[v].observerMap
                      /\ other \in DOMAIN views[v].observerMap =>
                            views'[v].observerMap[other] = views[v].observerMap[other]
                /\ IF matches = {} THEN views'[v] = views[v]
                   ELSE IF rest = <<>> THEN n \notin DOMAIN views'[v].observerMap
                   ELSE /\ n \in DOMAIN views'[v].observerMap
                        /\ views'[v].observerMap[n] = rest

Bound(vw, notificationName, ctx) ==
    IF notificationName \in DOMAIN vw.observerMap
    THEN Cardinality({j \in 1..Len(vw.observerMap[notificationName]) :
                         compareNotifyContext(vw.observerMap[notificationName][j], ctx)})
    ELSE 0

\* C16: removeMediator removes the Observer of the mediator from the names
\* its listNotificationInterests returned at registration, whatever the
\* method returns later: once removeMediator has returned a mediator, no
\* sequence holds an Observer of it, unless its onRemove registered it again.
C16_RemovedFromRegisteredNames ==
    (last.op = "removeMediator" /\ last.pre # Undefined /\ ~last.threw) =>
        /\ last.result = last.pre
        /\ Count(last.hooks, Event(last.pre, "onRegister")) = 0 =>
              \A n \in NoteNames : Bound(views[last.view], n, last.pre) = 0

\* C19: while observers are added and removed by registerMediator and
\* removeMediator only, wherever application code runs the sequence of a name
\* n holds, for a mediator m with a fixed list, as many Observers with the
\* notify context m as n occurs in the list when m is in the mediator map,
\* and none when it is not.
C19_MapsConsistent ==
    \A v \in DOMAIN views, m \in FixedMediators, n \in NoteNames :
        Bound(views[v], n, m) =
            IF m \in Registered(views[v])
            THEN Count(listNotificationInterests(m), n)
            ELSE 0

\* A callback runs while M3, which lists "N2" twice, is registered, after M1
\* was removed.
C19_Witness ==
    /\ Depth >= 1
    /\ "M3" \in Registered(views[1])
    /\ Bound(views[1], "N2", "M3") = 2
    /\ "M1" \in removed

(***************************************************************************)
(* The lifecycle of a mediator (Spec).                                     *)
(***************************************************************************)
Max(a, b) == IF a > b THEN a ELSE b

\* The step calls a hook: the frame of the call it suspends.
HookCalled(kind) == Depth' = Depth + 1 /\ stack'[Depth'].kind = kind

\* onRegister is called for a mediator that was not registered, once it is
\* in the mediator map and its Observer in the sequence of every interest.
OnRegisterCalled ==
    HookCalled("registerMediator") =>
        LET m == stack'[Depth'].mediator
            v == stack'[Depth'].view
        IN  /\ Get(views[v].mediatorMap, getMediatorName(m)) = Undefined
            /\ Get(views'[v].mediatorMap, getMediatorName(m)) = m
            /\ \A n \in NoteNames :
                  Bound(views'[v], n, m)
                      = Bound(views[v], n, m) + Count(listNotificationInterests(m), n)
            /\ \A n \in NoteNames :
                  Interested(m, n) =>
                      views'[v].observerMap[n][Len(views'[v].observerMap[n])] = Observer(m, m)
            /\ Count(stack'[Depth'].hooks, Event(m, "onRegister")) = 1
            /\ Count(stack'[Depth'].hooks, Event(m, "onRemove")) = 0

\* onRemove is called for a mediator that was registered, once its Observer
\* is out of the sequence of every interest and its name out of the
\* mediator map.
OnRemoveCalled ==
    HookCalled("removeMediator") =>
        LET m == stack'[Depth'].mediator
            v == stack'[Depth'].view
        IN  /\ Get(views[v].mediatorMap, getMediatorName(m)) = m
            /\ getMediatorName(m) \notin DOMAIN views'[v].mediatorMap
            /\ ~hasMediator(views'[v], getMediatorName(m))
            /\ \A n \in NoteNames :
                  Bound(views'[v], n, m)
                      = Max(0, Bound(views[v], n, m) - Count(listNotificationInterests(m), n))
            /\ m \notin direct => \A n \in NoteNames : Bound(views'[v], n, m) = 0
            /\ Count(stack'[Depth'].hooks, Event(m, "onRemove")) = 1
            /\ Count(stack'[Depth'].hooks, Event(m, "onRegister")) = 0

\* A mediator enters the mediator map only in a step that calls its
\* onRegister and leaves it only in a step that calls its onRemove, so the
\* two hooks alternate, onRegister first.
HooksAlternate ==
    \A v \in DOMAIN views, m \in Mediators :
        (m \in Registered(views[v])) # (m \in Registered(views'[v])) =>
            /\ HookCalled(IF m \in Registered(views'[v])
                          THEN "registerMediator" ELSE "removeMediator")
            /\ stack'[Depth'].mediator = m
            /\ stack'[Depth'].view = v

\* registerMediator called by onRemove for the name being removed registers.
RegistersInsideOnRemove ==
    \A m \in Mediators :
        (/\ Depth > 0
         /\ Top.kind = "removeMediator"
         /\ getMediatorName(m) = Top.arg
         /\ ~hasMediator(views[Top.view], Top.arg)
         /\ CallRegisterMediator(Top.view, m)) =>
            /\ HookCalled("registerMediator")
            /\ retrieveMediator(views'[Top.view], Top.arg) = m

\* C18: on a View the onRegister and onRemove calls of a mediator alternate,
\* onRegister first, one per registerMediator and removeMediator that took
\* effect; onRegister is called after the mediator is stored and observes
\* every interest, onRemove after its Observers and its name are removed, so
\* that onRemove can register the name again.
C18_HookOrdering ==
    [][OnRegisterCalled /\ OnRemoveCalled /\ HooksAlternate /\ RegistersInsideOnRemove]_vars

\* onRemove of a mediator has registered the mediator again.
C18_Witness ==
    /\ Depth = 2
    /\ stack[1].kind = "removeMediator"
    /\ stack[2].kind = "registerMediator"
    /\ stack[2].mediator = stack[1].mediator
    /\ stack[2].view = stack[1].view

(***************************************************************************)
(* A handler removing the mediator that is next in the delivery (Spec).    *)
(***************************************************************************)
\* The first handler of the innermost delivery, the one of the mediator a,
\* has removed the mediator b, whose Observer is second in the snapshot, and
\* is about to return.
RemovedNext(a, b) ==
    /\ Depth > 0
    /\ Top.kind = "notifyObservers"
    /\ Top.snap = <<Observer(a, a), Observer(b, b)>>
    /\ Top.i = 0
    /\ {a, b} \subseteq Top.registeredAtCall
    /\ Count(Top.hooks, Event(b, "onRemove")) = 1
    /\ Count(Top.hooks, Event(b, "onRegister")) = 0
    /\ ~hasMediator(views[Top.view], getMediatorName(b))

\* The delivery goes on to the handler of the removed mediator.
StillDelivered ==
    \A a \in Mediators : \A b \in Mediators \ {a} :
        (RemovedNext(a, b) /\ ObserverReturn) =>
            /\ Depth' = Depth
            /\ stack'[Depth].cur = Observer(b, b)
            /\ stack'[Depth].delivered = Top.snap
            /\ Count(stack'[Depth].delivered, Observer(b, b)) = 1
            /\ ~hasMediator(views'[Top.view], getMediatorName(b))

\* A delivery that begins while b is removed does not reach b.
NotDeliveredLater ==
    \A v \in DOMAIN views, n \in NoteNames, b \in removed \ direct :
        (CallNotifyObservers(v, n) /\ Depth' = Depth + 1) =>
            Count(stack'[Depth'].snap, Observer(b, b)) = 0

\* C20: when the handler of A removes the mediator B whose Observer comes
\* after A's in the sequence being delivered, the same notifyObservers call
\* still invokes B's handler, once, after B's onRemove and while
\* hasMediator(B) is false; a later notifyObservers does not invoke it.
C20_RemovalTakesEffectLater == [][StillDelivered /\ NotDeliveredLater]_vars

\* The handler of a removed ViewTestMediator6 mediator runs in the delivery
\* in which the handler before it removed the mediator.
C20_Witness ==
    \E a \in Mediators : \E b \in Mediators \ {a} :
        /\ Depth > 0
        /\ Top.kind = "notifyObservers"
        /\ Top.snap = <<Observer(a, a), Observer(b, b)>>
        /\ Top.i = 1
        /\ Top.cur = Observer(b, b)
        /\ {a, b} \subseteq Top.registeredAtCall
        /\ Count(Top.hooks, Event(b, "onRemove")) = 1
        /\ b \in removed
        /\ ~Top.acted
        /\ ~hasMediator(views[Top.view], getMediatorName(b))

(***************************************************************************)
(* Termination of a delivery (SpecDelivery).                               *)
(***************************************************************************)
\* No handler of the snapshot sends a notification.
SendsNothing(snap) == \A k \in 1..Len(snap) : Class(snap[k].fn) = "free"

\* The main program's notifyObservers call is delivering to handlers that
\* send nothing.
Delivering ==
    /\ Depth = 1
    /\ Top.kind = "notifyObservers"
    /\ SendsNothing(Top.snap)

\* The call has returned after one invocation per entry of the sequence as
\* the call found it.
DeliveredAll ==
    /\ Depth = 0
    /\ last.op = "notifyObservers"
    /\ ~last.threw
    /\ Len(last.delivered) = Len(last.snap)

\* A delivery invokes the entries the sequence held at the call and no
\* Observer registered since; the handler R1 keeps its delivery from returning.
CountsAtCall ==
    /\ \A j \in NotifyFrames :
          /\ stack[j].len = Len(stack[j].snap)
          /\ stack[j].i + 1 <= Len(stack[j].snap)
          /\ stack[j].delivered = SubSeq(stack[j].snap, 1, stack[j].i + 1)
    /\ last.op = "notifyObservers" =>
          /\ last.delivered = last.snap
          /\ SendsNothing(last.snap)

\* The next notifyObservers starts from the sequence with the Observers the
\* handlers registered.
NextTakesNewcomers ==
    \A v \in DOMAIN views, n \in NoteNames :
        (CallNotifyObservers(v, n) /\ n \in DOMAIN views[v].observerMap) =>
            /\ Depth' = Depth + 1
            /\ stack'[Depth'].snap = views[v].observerMap[n]

\* notifyObservers called by the handler R1 delivers again, to R1 too: the
\* View has no guard against the recursion, and no call returns from it.
RecursesUnguarded ==
    \A v \in DOMAIN views, n \in NoteNames :
        (RecursiveCaller(v, n) /\ CallNotifyObservers(v, n)) =>
            /\ Depth' = Depth + 1
            /\ ~SendsNothing(stack'[Depth'].snap)
            /\ stack'[Depth'].snap = views[v].observerMap[n]

\* C21: when no handler of the sequence calls notifyObservers, a
\* notifyObservers call returns, after as many handler invocations as the
\* sequence held when the call began, also when the handlers register
\* Observers under the name meanwhile (those are invoked by the next call); a
\* handler that calls notifyObservers for the same name again, every time,
\* is delivered to again and its delivery never returns.
C21_DeliveryTerminates ==
    /\ Delivering ~> DeliveredAll
    /\ []CountsAtCall
    /\ [][NextTakesNewcomers /\ RecursesUnguarded]_vars

\* A delivery of one handler has just returned; its handler registered the
\* recursive handler under the name of the notification.
C21_Witness ==
    /\ DeliveredAll
    /\ last.snap = <<Observer("H1", "M1")>>
    /\ views[last.view].observerMap[last.arg]
          = <<Observer("H1", "M1"), Observer("R1", "R1")>>

====
